---- MODULE Spec2Model ----
\* Domino Tasks backend (src/backend): the tag store, the task-tag association
\* table, the per-request database session and the four HTTP endpoints
\* (POST /auth/google, GET /tasks, POST /tags/, GET /tags/), as a state
\* machine whose steps are the points where a request can be interleaved with
\* another one (a database statement, an awaited outbound call).
EXTENDS Integers, Sequences, FiniteSets, TLC

VARIABLES tags, assoc, sessions, req

vars == <<tags, assoc, sessions, req>>

\* ---------------------------------------------------------------- bounds
MaxReqs == 2        \* request slots of the concurrent specifications
MaxSeqReqs == 3     \* request slots of the sequential specification
MaxTaskReqs == 1    \* request slots of the task specification
MaxPage == 2        \* largest skip / limit a GET /tags/ request carries
MaxItems == 2       \* longest 'items' array the task provider answers

Names == {"urgent", "home", "work"}

\* ------------------------------------------------------------ the store
\* models.Tag: a row {id, name} of table 'tags'.
Tag(id, name) == [id |-> id, name |-> name]

\* The id the store gives the next inserted row (INTEGER PRIMARY KEY).
NextTagId(T) ==
    IF T = <<>> THEN 1
    ELSE 1 + (CHOOSE m \in {T[i].id : i \in 1..Len(T)} :
                 \A i \in 1..Len(T) : T[i].id <= m)

\* crud.get_tag_by_name: query(Tag).filter(Tag.name == name).first();
\* the Optional result is a sequence of at most one row.
get_tag_by_name(T, name) ==
    LET hits == SelectSeq(T, LAMBDA t : t.name = name)
    IN IF hits = <<>> THEN <<>> ELSE <<Head(hits)>>

\* OFFSET k of a query: the rows without the first k.
RECURSIVE Offset(_, _)
Offset(rows, k) ==
    IF k <= 0 \/ rows = <<>> THEN rows ELSE Offset(Tail(rows), k - 1)

\* LIMIT k of a query: the first k rows.
RECURSIVE Limit(_, _)
Limit(rows, k) ==
    IF k <= 0 \/ rows = <<>> THEN <<>>
    ELSE <<Head(rows)>> \o Limit(Tail(rows), k - 1)

\* A query that cuts to the limit before it skips.
get_tags_limit_first(T, skip, limit) == Offset(Limit(T, limit), skip)

\* crud.get_tags: query(Tag).offset(skip).limit(limit).all()
get_tags(T, skip, limit) == Limit(Offset(T, skip), limit)

\* A store whose only constraint is the primary key.
UniqueViolation_pk_only(T, row) == \E i \in 1..Len(T) : T[i].id = row.id

\* The unique=True constraint of Tag.name (and the primary key on Tag.id):
\* whether the store accepts a new row.
UniqueViolation(T, row) ==
    \E i \in 1..Len(T) : T[i].name = row.name \/ T[i].id = row.id

\* crud.create_tag: add + commit + refresh. The commit raises IntegrityError
\* when the row breaks the store's constraints, and the store is unchanged.
crud_create_tag(T, name) ==
    LET db_tag == Tag(NextTagId(T), name)
    IN IF UniqueViolation(T, db_tag)
       THEN [raised |-> TRUE, store |-> T, db_tag |-> <<>>]
       ELSE [raised |-> FALSE, store |-> Append(T, db_tag), db_tag |-> <<db_tag>>]

\* A join without the filter on task_id.
get_tags_for_task_any(T, A, task_id) ==
    SelectSeq(T, LAMBDA t : \E a \in A : a[2] = t.id)

\* crud.get_tags_for_task: query(Tag).join(task_tags)
\*     .filter(task_tags.c.task_id == task_id).all()
get_tags_for_task(T, A, task_id) ==
    SelectSeq(T, LAMBDA t : \E a \in A : a[2] = t.id /\ a[1] = task_id)

\* ------------------------------------------------------------ requests
\* An HTTP response: status code, the 'detail' of an HTTPException (a sequence
\* of text pieces), the JSON body (a sequence), and the exception that left
\* the handler unhandled ("" when none did; the server then answers 500).
Resp(status, detail, body, exc) ==
    [status |-> status, detail |-> detail, body |-> body, exc |-> exc]

NoResp == Resp(0, <<>>, <<>>, "")

Unhandled(exc) == Resp(500, <<"Internal Server Error">>, <<>>, exc)

\* A request slot before its request arrives. Optional values are sequences of
\* at most one element; strings that the code parses are sequences of pieces.
IdleReq ==
    [kind |-> "none", pc |-> "idle",
     name |-> "", skip |-> 0, limit |-> 0,
     authorization |-> <<>>, access_token |-> <<>>,
     db |-> 0, token |-> <<>>, upstream |-> <<>>,
     items |-> <<>>, enriched |-> <<>>, calls |-> 0,
     resp |-> NoResp]

\* What is left of a request once it has ended: its locals are gone.
Ended(q) ==
    [IdleReq EXCEPT !.kind = q.kind, !.pc = "done", !.name = q.name,
                    !.db = q.db, !.resp = q.resp]

InFlight(q) == q.pc \notin {"idle", "done"}

\* The pieces of a header value: "Bearer", "Basic" and "tok" stand for runs of
\* non-space characters, " " for one space.
BearerPrefix == <<"Bearer", " ">>

\* str.startswith
startswith(s, p) == Len(s) >= Len(p) /\ SubSeq(s, 1, Len(p)) = p

\* str.split(" "): the runs between single spaces, empty runs included.
RECURSIVE split(_)
split(s) ==
    IF s = <<>> THEN << <<>> >>
    ELSE LET rest == split(Tail(s))
         IN IF Head(s) = " " THEN << <<>> >> \o rest
            ELSE << <<Head(s)>> \o Head(rest) >> \o Tail(rest)

\* The Authorization headers a client sends: <<>> is no header at all.
Authorizations ==
    { <<>>,
      << <<>> >>,
      << <<"Basic", " ", "tok">> >>,
      << <<"Bearer">> >>,
      << <<"Bearer", " ">> >>,
      << <<"Bearer", " ", "tok">> >>,
      << <<"Bearer", " ", " ", "tok">> >> }

AccessTokens == { <<"tok">>, <<>> }

\* ------------------------------------------------- the external providers
SeqsUpTo(S, n) == UNION {[1..k -> S] : k \in 0..n}

\* A task object of the provider's answer; a field the object lacks is <<>>.
Item(id, title, status, notes) ==
    [id |-> id, title |-> title, status |-> status, due |-> <<>>, notes |-> notes]

ItemShapes ==
    { Item(<<"t1">>, <<"Buy milk">>, <<"needsAction">>, <<>>),
      Item(<<"t2">>, <<"Call">>, <<"completed">>, <<"today">>),
      Item(<<>>, <<"Buy milk">>, <<"needsAction">>, <<>>),
      Item(<<"t1">>, <<>>, <<"needsAction">>, <<>>),
      Item(<<"t2">>, <<"Call">>, <<>>, <<>>) }

\* What one outbound GET can end with: a transport failure (net), or a
\* response with a status, a text and, when it is JSON, its object.
Answer(net, status, text, json) ==
    [net |-> net, status |-> status, text |-> text, json |-> json]

FailureAnswers ==
    {Answer(n, 0, "", <<>>) : n \in {"ConnectTimeout", "ConnectError"}}
    \cup {Answer("", c, "upstream body", <<>>) : c \in {401, 404, 500}}

TaskAnswers(n) ==
    FailureAnswers
    \cup {Answer("", 200, "", <<[has_items |-> FALSE, items |-> <<>>]>>)}
    \cup {Answer("", 200, "", <<[has_items |-> TRUE, items |-> s]>>) :
             s \in SeqsUpTo(ItemShapes, n)}

UserAnswers ==
    FailureAnswers
    \cup {Answer("", 200, "", <<u>>) :
             u \in { [email |-> <<"a@b.c">>, name |-> <<"Ann">>, picture |-> <<>>],
                     [email |-> <<"a@b.c">>, name |-> <<"Ann">>, picture |-> <<"p.png">>],
                     [email |-> <<>>, name |-> <<"Ann">>, picture |-> <<>>],
                     [email |-> <<"a@b.c">>, name |-> <<>>, picture |-> <<>>] }}

\* httpx Response.raise_for_status: raises HTTPStatusError unless 2xx.
raise_for_status(status) == status < 200 \/ status > 299

\* schemas.GoogleTask.model_validate: id, title and status are required.
GoogleTaskValid(task_data) ==
    task_data.id # <<>> /\ task_data.title # <<>> /\ task_data.status # <<>>

\* schemas.Task(**google_task.model_dump(), tags=local_tags)
Task(task_data, local_tags) ==
    [id |-> task_data.id[1], title |-> task_data.title[1],
     status |-> task_data.status[1], due |-> task_data.due,
     notes |-> task_data.notes, tags |-> local_tags]

\* schemas.UserInfo(**user_data): email and name are required.
UserInfoValid(user_data) == user_data.email # <<>> /\ user_data.name # <<>>

\* -------------------------------------------------------------- actions
\* Request r changes as given; nothing else of the request table does.
Set(r, q) == req' = [req EXCEPT ![r] = q]

\* The handler of request r ends with response p (returned or raised).
Reply(r, q, p) == Set(r, [q EXCEPT !.resp = p, !.pc = "exit"])

\* Requests are numbered in the order they arrive: the next one takes the
\* first free slot.
Arrives(r) ==
    /\ req[r].pc = "idle"
    /\ \A q \in 1..(r - 1) : req[q].pc # "idle"

\* A POST /tags/ request arrives, body {name}.
request_create_tag(r, name) ==
    /\ Arrives(r)
    /\ Set(r, [req[r] EXCEPT !.kind = "create_tag", !.pc = "get_db", !.name = name])
    /\ UNCHANGED <<tags, assoc, sessions>>

\* A GET /tags/ request arrives, query skip and limit.
request_read_tags(r, skip, limit) ==
    /\ Arrives(r)
    /\ Set(r, [req[r] EXCEPT !.kind = "read_tags", !.pc = "get_db",
                             !.skip = skip, !.limit = limit])
    /\ UNCHANGED <<tags, assoc, sessions>>

\* A GET /tasks request arrives, with or without an Authorization header.
request_get_tasks(r, authorization) ==
    /\ Arrives(r)
    /\ Set(r, [req[r] EXCEPT !.kind = "get_tasks", !.pc = "get_db",
                             !.authorization = authorization])
    /\ UNCHANGED <<tags, assoc, sessions>>

\* A POST /auth/google request arrives, body {access_token}. The endpoint
\* has no database dependency.
request_authenticate_google(r, access_token) ==
    /\ Arrives(r)
    /\ Set(r, [req[r] EXCEPT !.kind = "authenticate_google", !.pc = "call",
                             !.access_token = access_token])
    /\ UNCHANGED <<tags, assoc, sessions>>

\* get_db up to its yield: db = SessionLocal(), a new session object. The
\* dependency is entered before the handler's own parameters are validated.
get_db(r) ==
    /\ req[r].pc = "get_db"
    /\ sessions' = Append(sessions, "open")
    /\ Set(r, [req[r] EXCEPT !.db = Len(sessions) + 1, !.pc = "handler"])
    /\ UNCHANGED <<tags, assoc>>

\* A dependency without try/finally: the session is closed only when the
\* handler returned.
get_db_close_on_return(r) ==
    /\ req[r].pc = "exit"
    /\ req[r].db # 0
    /\ sessions' = IF req[r].resp.status = 200
                   THEN [sessions EXCEPT ![req[r].db] = "closed"]
                   ELSE sessions
    /\ Set(r, Ended(req[r]))
    /\ UNCHANGED <<tags, assoc>>

\* get_db after its yield: finally: db.close(), whatever the handler did.
get_db_finally(r) ==
    /\ req[r].pc = "exit"
    /\ req[r].db # 0
    /\ sessions' = [sessions EXCEPT ![req[r].db] = "closed"]
    /\ Set(r, Ended(req[r]))
    /\ UNCHANGED <<tags, assoc>>

\* A handler without the pre-check: it goes straight to the insert.
create_tag_no_check(r) ==
    /\ req[r].kind = "create_tag" /\ req[r].pc = "handler"
    /\ Set(r, [req[r] EXCEPT !.pc = "insert"])
    /\ UNCHANGED <<tags, assoc, sessions>>

\* main.create_tag, first statement: the pre-check, and the 400 it raises.
create_tag_check(r) ==
    /\ req[r].kind = "create_tag" /\ req[r].pc = "handler"
    /\ LET db_tag == get_tag_by_name(tags, req[r].name)
       IN IF db_tag # <<>>
          THEN Reply(r, req[r], Resp(400, <<"Tag already registered">>, <<>>, ""))
          ELSE Set(r, [req[r] EXCEPT !.pc = "insert"])
    /\ UNCHANGED <<tags, assoc, sessions>>

\* main.create_tag, second statement: return crud.create_tag(db, tag). No
\* except clause surrounds it: an IntegrityError leaves the handler.
create_tag(r) ==
    /\ req[r].kind = "create_tag" /\ req[r].pc = "insert"
    /\ LET done == crud_create_tag(tags, req[r].name)
       IN /\ tags' = done.store
          /\ IF done.raised
             THEN Reply(r, req[r], Unhandled("IntegrityError"))
             ELSE Reply(r, req[r], Resp(200, <<>>, done.db_tag, ""))
    /\ UNCHANGED <<assoc, sessions>>

\* main.read_tags
read_tags(r) ==
    /\ req[r].kind = "read_tags" /\ req[r].pc = "handler"
    /\ Reply(r, req[r], Resp(200, <<>>, get_tags(tags, req[r].skip, req[r].limit), ""))
    /\ UNCHANGED <<tags, assoc, sessions>>

\* main.get_tasks up to the outbound call: the required Header() parameter
\* (the framework answers 422 when the header is absent), the scheme test and
\* the extraction of the token.
get_tasks_authorization(r) ==
    /\ req[r].kind = "get_tasks" /\ req[r].pc = "handler"
    /\ IF req[r].authorization = <<>>
       THEN Reply(r, req[r], Resp(422, <<"Field required">>, <<>>, ""))
       ELSE LET authorization == req[r].authorization[1]
            IN IF ~startswith(authorization, BearerPrefix)
               THEN Reply(r, req[r],
                          Resp(401, <<"Invalid authorization scheme.">>, <<>>, ""))
               ELSE Set(r, [req[r] EXCEPT !.token = split(authorization)[2],
                                          !.pc = "call"])
    /\ UNCHANGED <<tags, assoc, sessions>>

\* Except clauses that catch HTTPStatusError alone: a transport error leaves
\* the handler.
get_tasks_except_status_only(e) ==
    IF e.net # ""
    THEN Unhandled(e.net)
    ELSE IF e.status = 401
    THEN Resp(401, <<"Invalid or expired Google token.">>, <<>>, "")
    ELSE Resp(400, <<"Failed to fetch tasks from Google: ", e.text>>, <<>>, "")

\* The except clauses of main.get_tasks, for a call that ended as e.
get_tasks_except(e) ==
    IF e.net # ""
    THEN Resp(400, <<"An error occurred while requesting tasks from Google: ", e.net>>,
              <<>>, "")
    ELSE IF e.status = 401
    THEN Resp(401, <<"Invalid or expired Google token.">>, <<>>, "")
    ELSE Resp(400, <<"Failed to fetch tasks from Google: ", e.text>>, <<>>, "")

\* main.get_tasks: await client.get(...), raise_for_status(), and
\* response.json().get("items", []).
get_tasks_call(r, e) ==
    /\ req[r].kind = "get_tasks" /\ req[r].pc = "call"
    /\ LET q == [req[r] EXCEPT !.calls = @ + 1, !.upstream = <<e>>]
       IN IF e.net # "" \/ raise_for_status(e.status)
          THEN Reply(r, q, get_tasks_except(e))
          ELSE Set(r, [q EXCEPT !.pc = "loop",
                                !.items = IF e.json[1].has_items
                                          THEN e.json[1].items ELSE <<>>])
    /\ UNCHANGED <<tags, assoc, sessions>>

\* A list that takes each new task at its front.
enriched_tasks_prepend(enriched_tasks, enriched_task) ==
    <<enriched_task>> \o enriched_tasks

\* enriched_tasks.append(enriched_task)
enriched_tasks_append(enriched_tasks, enriched_task) ==
    Append(enriched_tasks, enriched_task)

\* A loop that stops at the first item it cannot validate and returns the
\* tasks enriched so far.
get_tasks_loop_partial(r) ==
    /\ req[r].kind = "get_tasks" /\ req[r].pc = "loop"
    /\ LET q == req[r]
           n == Len(q.enriched)
       IN IF n = Len(q.items) \/ ~GoogleTaskValid(q.items[n + 1])
          THEN Reply(r, q, Resp(200, <<>>, q.enriched, ""))
          ELSE Set(r, [q EXCEPT !.enriched =
                          Append(@, Task(q.items[n + 1],
                                         get_tags_for_task(tags, assoc, q.items[n + 1].id[1])))])
    /\ UNCHANGED <<tags, assoc, sessions>>

\* main.get_tasks: one turn of the for loop (validate, look the tags up,
\* append), or the return after the last item. A ValidationError is caught by
\* neither except clause.
get_tasks_loop(r) ==
    /\ req[r].kind = "get_tasks" /\ req[r].pc = "loop"
    /\ LET q == req[r]
           n == Len(q.enriched)
       IN IF n = Len(q.items)
          THEN Reply(r, q, Resp(200, <<>>, q.enriched, ""))
          ELSE LET task_data == q.items[n + 1]
               IN IF ~GoogleTaskValid(task_data)
                  THEN Reply(r, q, Unhandled("ValidationError"))
                  ELSE LET local_tags == get_tags_for_task(tags, assoc, task_data.id[1])
                       IN Set(r, [q EXCEPT !.enriched =
                                       enriched_tasks_append(@, Task(task_data, local_tags))])
    /\ UNCHANGED <<tags, assoc, sessions>>

\* The except clauses of main.authenticate_google, for a call that ended as e.
authenticate_google_except(e) ==
    IF e.net # ""
    THEN Resp(400, <<"An error occurred while requesting user info from Google: ", e.net>>,
              <<>>, "")
    ELSE IF e.status = 401
    THEN Resp(401, <<"Invalid or expired Google token.">>, <<>>, "")
    ELSE Resp(400, <<"Failed to fetch user info from Google: ", e.text>>, <<>>, "")

\* main.authenticate_google: the outbound call and what the handler makes of
\* its outcome.
authenticate_google(r, e) ==
    /\ req[r].kind = "authenticate_google" /\ req[r].pc = "call"
    /\ LET q == [req[r] EXCEPT !.calls = @ + 1, !.upstream = <<e>>,
                               !.token = req[r].access_token]
       IN IF e.net # "" \/ raise_for_status(e.status)
          THEN Reply(r, q, authenticate_google_except(e))
          ELSE IF ~UserInfoValid(e.json[1])
          THEN Reply(r, q, Unhandled("ValidationError"))
          ELSE Reply(r, q, Resp(200, <<>>, e.json, ""))
    /\ UNCHANGED <<tags, assoc, sessions>>

\* The end of a request that holds no session: the response is sent.
authenticate_google_end(r) ==
    /\ req[r].pc = "exit"
    /\ req[r].db = 0
    /\ Set(r, Ended(req[r]))
    /\ UNCHANGED <<tags, assoc, sessions>>

\* ------------------------------------------------------- specifications
\* The stores a run starts from. Association rows are written outside this
\* service; each references an existing tag (ForeignKey('tags.id')).
Stores ==
    { [tags |-> <<>>, assoc |-> {}],
      [tags |-> <<Tag(1, "urgent")>>, assoc |-> {<<"t2", 1>>}],
      [tags |-> <<Tag(1, "urgent"), Tag(2, "home")>>,
       assoc |-> {<<"t1", 1>>, <<"t1", 2>>, <<"t2", 2>>}] }

InitWith(n) ==
    /\ \E s \in Stores : tags = s.tags /\ assoc = s.assoc
    /\ sessions = <<>>
    /\ req = [r \in 1..n |-> IdleReq]

Idle == \A r \in DOMAIN req : ~InFlight(req[r])

\* Requests of the three endpoints that hold a session, overlapping freely:
\* every interleaving of their database statements and outbound calls. The
\* inputs are a few of each kind; SpecSeq and SpecTasks range over all.
SomeAuthorizations == { <<>>, << <<"Bearer", " ", "tok">> >> }

SomeTaskAnswers ==
    { Answer("ConnectError", 0, "", <<>>),
      Answer("", 401, "upstream body", <<>>),
      Answer("", 200, "", <<[has_items |-> FALSE, items |-> <<>>]>>) }
    \cup {Answer("", 200, "", <<[has_items |-> TRUE, items |-> <<i>>]>>) :
             i \in { Item(<<"t1">>, <<"Buy milk">>, <<"needsAction">>, <<>>),
                     Item(<<"t2">>, <<>>, <<"completed">>, <<>>) }}

Init == InitWith(MaxReqs)

Next ==
    \/ \E r \in DOMAIN req, name \in Names : request_create_tag(r, name)
    \/ \E r \in DOMAIN req : request_read_tags(r, 0, 1)
    \/ \E r \in DOMAIN req, a \in SomeAuthorizations : request_get_tasks(r, a)
    \/ \E r \in DOMAIN req : get_db(r)
    \/ \E r \in DOMAIN req : create_tag_check(r)
    \/ \E r \in DOMAIN req : create_tag(r)
    \/ \E r \in DOMAIN req : read_tags(r)
    \/ \E r \in DOMAIN req : get_tasks_authorization(r)
    \/ \E r \in DOMAIN req, e \in SomeTaskAnswers : get_tasks_call(r, e)
    \/ \E r \in DOMAIN req : get_tasks_loop(r)
    \/ \E r \in DOMAIN req : get_db_finally(r)

Spec == Init /\ [][Next]_vars

\* The tag endpoints, requests one after another: a request arrives only when
\* no other request is in flight.
InitSeq == InitWith(MaxSeqReqs)

NextSeq ==
    \/ \E r \in DOMAIN req, name \in Names : Idle /\ request_create_tag(r, name)
    \/ \E r \in DOMAIN req, skip \in 0..MaxPage, limit \in 0..MaxPage :
           Idle /\ request_read_tags(r, skip, limit)
    \/ \E r \in DOMAIN req : get_db(r)
    \/ \E r \in DOMAIN req : create_tag_check(r)
    \/ \E r \in DOMAIN req : create_tag(r)
    \/ \E r \in DOMAIN req : read_tags(r)
    \/ \E r \in DOMAIN req : get_db_finally(r)

SpecSeq == InitSeq /\ [][NextSeq]_vars

\* GET /tasks and POST /auth/google against every header a client sends and
\* every answer of the provider, requests one after another.
InitTasks == InitWith(MaxTaskReqs)

NextTasks ==
    \/ \E r \in DOMAIN req, a \in Authorizations : Idle /\ request_get_tasks(r, a)
    \/ \E r \in DOMAIN req, t \in AccessTokens :
           Idle /\ request_authenticate_google(r, t)
    \/ \E r \in DOMAIN req : get_db(r)
    \/ \E r \in DOMAIN req : get_tasks_authorization(r)
    \/ \E r \in DOMAIN req, e \in TaskAnswers(MaxItems) : get_tasks_call(r, e)
    \/ \E r \in DOMAIN req : get_tasks_loop(r)
    \/ \E r \in DOMAIN req, e \in UserAnswers : authenticate_google(r, e)
    \/ \E r \in DOMAIN req : get_db_finally(r)
    \/ \E r \in DOMAIN req : authenticate_google_end(r)

SpecTasks == InitTasks /\ [][NextTasks]_vars

\* --------------------------------------------------------------- claims
Slots == DOMAIN req

Rows(T) == {T[i] : i \in 1..Len(T)}

Named(T, n) == {i \in 1..Len(T) : T[i].name = n}

Answered(r) == req[r].resp.status # 0

IsCreate(r) == req[r].kind = "create_tag"

\* The rows that POST /tags/ requests of this run created.
Created == {req[r].resp.body[1] : r \in {q \in Slots : IsCreate(q) /\ req[q].resp.status = 200}}

\* C1: with POST /tags/ requests one after another, the first request for a
\* name the store does not hold answers 200 with the created tag {id, name};
\* every later request for that name answers 400; the store then holds exactly
\* one row of that name, and get_tag_by_name returns it (the created tag).
C1_CreateOnceThenConflict ==
    \A r \in Slots :
        (IsCreate(r) /\ Answered(r)) =>
            LET n == req[r].name
                first == \A q \in 1..(r - 1) : ~(IsCreate(q) /\ req[q].name = n)
                held == \E t \in Rows(tags) \ Created : t.name = n
                p == req[r].resp
            IN /\ (first /\ ~held) =>
                      /\ p.status = 200
                      /\ Len(p.body) = 1
                      /\ p.body[1].name = n
                      /\ p.body[1] \in Rows(tags)
               /\ ~first => (p.status = 400 /\ p.body = <<>>)
               /\ Cardinality(Named(tags, n)) = 1
               /\ Len(get_tag_by_name(tags, n)) = 1
               /\ get_tag_by_name(tags, n)[1].name = n
               /\ \A t \in Created : t.name = n => get_tag_by_name(tags, n) = <<t>>

\* Three requests for one new name have ended: created, conflict, conflict.
C1_Witness ==
    /\ Len(req) >= 3
    /\ \A r \in 1..3 : IsCreate(r) /\ req[r].pc = "done" /\ req[r].name = req[1].name
    /\ req[1].resp.status = 200
    /\ req[2].resp.status = 400
    /\ req[3].resp.status = 400

\* C2: in every state, under every interleaving of POST /tags/ requests, no
\* two rows of the tag store share a name or an id; of two requests for one
\* name that both reached the insert, at most one inserted, and exactly one
\* row of that name exists.
C2_UniqueNames ==
    /\ \A i, j \in 1..Len(tags) :
           i # j => (tags[i].name # tags[j].name /\ tags[i].id # tags[j].id)
    /\ \A r, q \in Slots :
           ( /\ r # q /\ IsCreate(r) /\ IsCreate(q) /\ req[r].name = req[q].name
             /\ req[r].resp.status \in {200, 500}
             /\ req[q].resp.status \in {200, 500} ) =>
               /\ ~(req[r].resp.status = 200 /\ req[q].resp.status = 200)
               /\ Cardinality(Named(tags, req[r].name)) = 1

\* Two requests for one name both passed the pre-check; the store rejected
\* the second insert.
C2_Witness ==
    \E r, q \in Slots :
        /\ IsCreate(r) /\ IsCreate(q) /\ req[r].name = req[q].name
        /\ req[r].resp.status = 200
        /\ req[q].resp.exc = "IntegrityError"
        /\ Cardinality(Named(tags, req[r].name)) = 1

\* C3: every POST /tags/ request ends with the created tag (200) or with the
\* 400 conflict response, under every interleaving; in particular a request
\* whose name is registered when it tries to create it ends with 400.
C3_CreatedOrConflict ==
    \A r \in Slots :
        (IsCreate(r) /\ Answered(r)) => req[r].resp.status \in {200, 400}

IsTasks(r) == req[r].kind = "get_tasks"

\* The handler of request r has ended and its locals are still in place.
AtExit(r) == req[r].pc = "exit"

\* "Missing or malformed": no header, a value that does not start with
\* 'Bearer ', or 'Bearer ' followed by no token.
Malformed(authorization) ==
    \/ authorization = <<>>
    \/ ~startswith(authorization[1], BearerPrefix)
    \/ authorization[1] = BearerPrefix

\* C4: a GET /tasks request whose Authorization header is missing or
\* malformed ends with 401 and makes no outbound call.
C4_MalformedIsUnauthorized ==
    \A r \in Slots :
        (IsTasks(r) /\ InFlight(req[r]) /\ Malformed(req[r].authorization)) =>
            /\ req[r].calls = 0
            /\ Answered(r) => req[r].resp.status = 401

\* The provider's answer that request r received, once it has one.
Upstream(r) == req[r].upstream[1]

CallFailed(e) == e.net # "" \/ e.status \in 400..599

\* C5: for POST /auth/google and GET /tasks, a provider status 401 gives
\* response 401, any other 4xx/5xx gives 400 carrying the upstream body, a
\* transport failure gives 400; no failure of the call leaves the handler as
\* an unhandled exception, and a request makes at most one outbound call.
C5_UpstreamErrorMapping ==
    \A r \in Slots :
        /\ req[r].calls <= 1
        /\ (AtExit(r) /\ req[r].upstream # <<>> /\ CallFailed(Upstream(r))) =>
               LET e == Upstream(r)
                   p == req[r].resp
               IN /\ p.exc = ""
                  /\ req[r].calls = 1
                  /\ e.net # "" => p.status = 400
                  /\ (e.net = "" /\ e.status = 401) => p.status = 401
                  /\ (e.net = "" /\ e.status # 401) =>
                         (p.status = 400 /\ \E i \in 1..Len(p.detail) : p.detail[i] = e.text)

\* A GET /tasks request whose call timed out ended with 400 after one call.
C5_Witness ==
    \E r \in Slots :
        /\ IsTasks(r) /\ AtExit(r) /\ req[r].upstream # <<>>
        /\ Upstream(r).net = "ConnectTimeout"
        /\ req[r].resp.status = 400
        /\ req[r].calls = 1

\* The 'items' array of the answer request r received (empty when absent).
ProviderItems(r) ==
    LET json == Upstream(r).json[1]
    IN IF json.has_items THEN json.items ELSE <<>>

Succeeded(r) ==
    IsTasks(r) /\ AtExit(r) /\ req[r].resp.status = 200

\* C6: a successful GET /tasks returns as many tasks as the provider's
\* 'items' holds (none when 'items' is absent), the i-th with the id of the
\* i-th item.
C6_OrderPreserved ==
    \A r \in Slots :
        Succeeded(r) =>
            LET body == req[r].resp.body
                items == ProviderItems(r)
            IN /\ Len(body) = Len(items)
               /\ \A i \in 1..Len(items) : items[i].id = <<body[i].id>>

\* A success over two items with different ids, returned in the provider's
\* order.
C6_Witness ==
    \E r \in Slots :
        /\ Succeeded(r)
        /\ Len(req[r].resp.body) = 2
        /\ req[r].resp.body[1].id = "t2"
        /\ req[r].resp.body[2].id = "t1"

\* C7: when the provider call of GET /tasks fails, or any item lacks id,
\* title or status, the request ends with a failure response and no enriched
\* task, also after earlier items were enriched.
C7_AllOrNothing ==
    \A r \in Slots :
        (IsTasks(r) /\ AtExit(r) /\ req[r].upstream # <<>>) =>
            LET e == Upstream(r)
                bad == \/ CallFailed(e)
                       \/ \E i \in 1..Len(ProviderItems(r)) :
                              \E f \in {"id", "title", "status"} :
                                  ProviderItems(r)[i][f] = <<>>
            IN bad => (req[r].resp.status >= 400 /\ req[r].resp.body = <<>>)

\* The second item lacked a field after the first had been enriched.
C7_Witness ==
    \E r \in Slots :
        /\ IsTasks(r) /\ AtExit(r)
        /\ Len(req[r].enriched) = 1
        /\ Len(req[r].items) = 2
        /\ req[r].resp.status = 500
        /\ req[r].resp.body = <<>>

Min(a, b) == IF a <= b THEN a ELSE b

Max(a, b) == IF a >= b THEN a ELSE b

\* C8: get_tags(skip, limit), skip >= 0 and limit >= 0, returns the stored
\* tags at positions skip+1 .. min(skip+limit, n) in store order; with two
\* stored tags, skip = 0 and limit = 1 return the first tag alone.
C8_Pagination ==
    \A r \in Slots :
        (req[r].kind = "read_tags" /\ AtExit(r)) =>
            LET body == req[r].resp.body
                skip == req[r].skip
                limit == req[r].limit
                n == Len(tags)
            IN /\ req[r].resp.status = 200
               /\ Len(body) = Max(0, Min(skip + limit, n) - skip)
               /\ Len(body) <= limit
               /\ \A i \in 1..Len(body) : body[i] = tags[skip + i]
               /\ (limit = 0 \/ skip >= n) => body = <<>>
               /\ (n = 2 /\ skip = 0 /\ limit = 1) => body = <<tags[1]>>

\* Two stored tags, skip = 1 and limit = 1: the second tag alone.
C8_Witness ==
    \E r \in Slots :
        /\ req[r].kind = "read_tags" /\ AtExit(r)
        /\ Len(tags) = 2
        /\ req[r].skip = 1 /\ req[r].limit = 1
        /\ req[r].resp.body = <<tags[2]>>

\* C9: no two requests hold the same session, and a request that has ended,
\* with success, an HTTP error or an unhandled exception, has its session
\* closed.
C9_SessionScoped ==
    /\ \A r, q \in Slots :
           (r # q /\ req[r].db # 0 /\ req[q].db # 0) => req[r].db # req[q].db
    /\ \A r \in Slots :
           (req[r].pc = "done" /\ req[r].db # 0) => sessions[req[r].db] = "closed"

\* One request ended with an unhandled exception and one with an HTTP error,
\* both sessions closed.
C9_Witness ==
    \E r, q \in Slots :
        /\ req[r].pc = "done" /\ req[q].pc = "done"
        /\ req[r].resp.exc # ""
        /\ req[q].resp.status \in {400, 401}
        /\ sessions[req[r].db] = "closed" /\ sessions[req[q].db] = "closed"

\* The tags the association table pairs with task id t.
Paired(t) == {x \in Rows(tags) : <<t, x.id>> \in assoc}

SeqSet(s) == {s[i] : i \in 1..Len(s)}

\* C10: each look-up of the GET /tasks loop attaches exactly the tags paired
\* with the task's id in the association table (none when the id has no row),
\* changes neither the tag store nor the table, and the tasks a successful
\* request returns carry get_tags_for_task of their ids.
C10_TagsForTask ==
    [][ \A r \in Slots :
          (IsTasks(r) /\ req[r].pc = "loop" /\ req'[r] # req[r]) =>
              /\ tags' = tags /\ assoc' = assoc
              /\ Len(req'[r].enriched) = Len(req[r].enriched) + 1 =>
                     LET t == req'[r].enriched[Len(req'[r].enriched)]
                     IN /\ SeqSet(t.tags) = Paired(t.id)
                        /\ Len(t.tags) = Cardinality(Paired(t.id))
                        /\ (\A a \in assoc : a[1] # t.id) => t.tags = <<>>
              /\ req'[r].resp.status = 200 =>
                     /\ req'[r].resp.body = req[r].enriched
                     /\ \A i \in 1..Len(req[r].enriched) :
                            req[r].enriched[i].tags =
                                get_tags_for_task(tags, assoc, req[r].enriched[i].id)
      ]_vars

\* A successful GET /tasks returned task t1 with the two tags paired with it.
C10_Witness ==
    \E r \in Slots :
        /\ Succeeded(r)
        /\ Len(req[r].resp.body) = 1
        /\ Len(req[r].resp.body[1].tags) = 2
        /\ assoc = {<<"t1", 1>>, <<"t1", 2>>, <<"t2", 2>>}

====
